---------------------------- MODULE Spec2Model ----------------------------
(***************************************************************************)
(* Solidity Copilot: the three-call response pipeline (src/app.py) and the *)
(* prompt library (src/prompts.py).                                        *)
(*                                                                         *)
(* A text is a sequence of atoms; an atom stands for one character or for  *)
(* one fixed run of characters that the program never looks inside.        *)
(* Concatenation of texts is \o, so an f-string is the concatenation of    *)
(* its literal pieces and its interpolated values.                         *)
(***************************************************************************)
EXTENDS Naturals, Sequences, FiniteSets, TLC

VARIABLES
    api_key,                \* SolidityCopilot.api_key (os.getenv)
    messages,               \* st.session_state.messages
    use_two_call,           \* st.session_state.use_two_call
    use_three_call,         \* st.session_state.use_three_call
    pc,                     \* position of the script run inside main()
    user_input,             \* get_response locals ...
    primary_response,
    improved_response,
    technical_assumptions,
    security_assumptions,
    assumptions_response,
    response,               \* the value get_response returns to main()
    posts,                  \* the POSTs issued by the turn in progress, in order
    render_raised,          \* a Streamlit call raised after step 3 in this turn
    shown,                  \* the artifacts get_response has rendered in this turn
    nturns,                 \* turns started in this session
    clearedAt,              \* value of nturns at the last Clear Chat
    completed,              \* turns completed since the last Clear Chat
    fn_in,                  \* argument of the function applied (function specs)
    fn_out                  \* its outcome

vars == << api_key, messages, use_two_call, use_three_call, pc, user_input,
           primary_response, improved_response, technical_assumptions,
           security_assumptions, assumptions_response, response, posts,
           render_raised, shown, nturns, clearedAt, completed, fn_in, fn_out >>

session == << api_key, messages, use_two_call, use_three_call, pc, user_input,
              primary_response, improved_response, technical_assumptions,
              security_assumptions, assumptions_response, response, posts,
              render_raised, shown, nturns, clearedAt, completed >>

(***************************************************************************)
(* Bounds of the model.                                                    *)
(***************************************************************************)
MaxTurns == 2       \* turns started in one session
MaxArr == 2         \* entries of one array of the assumptions reply

(***************************************************************************)
(* Characters with a meaning in JSON.                                      *)
(***************************************************************************)
LB == "{"
RB == "}"
LK == "["
RK == "]"
CM == ","
CL == ":"
QT == "\""
NL == "\n"
SP == " "
EscQT == "\\\""     \* the two characters backslash, quote
EscNL == "\\n"      \* the two characters backslash, n
WS == {SP, NL}

(***************************************************************************)
(* JSON values as Python holds them after json.loads.                      *)
(***************************************************************************)
JNull == [k |-> "null"]
JNum == [k |-> "num"]
JBool == [k |-> "bool"]
JStr(s) == [k |-> "str", s |-> s]
JArr(items) == [k |-> "arr", items |-> items]
JObj(keys, m) == [k |-> "obj", keys |-> keys, m |-> m]

Unescape(a) == IF a = EscQT THEN QT ELSE IF a = EscNL THEN NL ELSE a

RECURSIVE Skip(_, _)
Skip(t, i) == IF i <= Len(t) /\ t[i] \in WS THEN Skip(t, i + 1) ELSE i

Fail == [ok |-> FALSE]

\* Least j > i with t[j] = QT, or 0.
RECURSIVE Closing(_, _)
Closing(t, j) ==
    IF j > Len(t) THEN 0 ELSE IF t[j] = QT THEN j ELSE Closing(t, j + 1)

\* F applied to the value of v, with v evaluated once
Bind(v, F(_)) == CHOOSE y \in {F(x) : x \in {v}} : TRUE

ParseString(t, i) ==
    IF i > Len(t) \/ t[i] # QT THEN Fail
    ELSE Bind(Closing(t, i + 1), LAMBDA j :
         IF j = 0 \/ (\E x \in (i + 1)..(j - 1) : t[x] = NL) THEN Fail
         ELSE [ok |-> TRUE,
               val |-> JStr([x \in 1..(j - i - 1) |-> Unescape(t[i + x])]),
               next |-> j + 1])

RECURSIVE ParseValue(_, _)
RECURSIVE ParseElems(_, _, _)
RECURSIVE ParseMembers(_, _, _, _)

ParseElems(t, i, acc) ==
    Bind(ParseValue(t, Skip(t, i)), LAMBDA r :
    IF ~r.ok THEN Fail
    ELSE Bind(Skip(t, r.next), LAMBDA n :
         IF n > Len(t) THEN Fail
         ELSE IF t[n] = CM THEN ParseElems(t, n + 1, Append(acc, r.val))
         ELSE IF t[n] = RK
              THEN [ok |-> TRUE, val |-> JArr(Append(acc, r.val)), next |-> n + 1]
         ELSE Fail))

\* A repeated key keeps its first position and takes the last value (dict).
ParseMembers(t, i, keys, m) ==
    Bind(ParseString(t, Skip(t, i)), LAMBDA key :
    IF ~key.ok THEN Fail
    ELSE Bind(Skip(t, key.next), LAMBDA c :
         IF c > Len(t) \/ t[c] # CL THEN Fail
         ELSE Bind(ParseValue(t, Skip(t, c + 1)), LAMBDA r :
              IF ~r.ok THEN Fail
              ELSE Bind(Skip(t, r.next), LAMBDA n :
                   LET ks == IF key.val.s \in DOMAIN m THEN keys
                             ELSE Append(keys, key.val.s)
                       mm == [z \in DOMAIN m \cup {key.val.s} |->
                                 IF z = key.val.s THEN r.val ELSE m[z]]
                   IN
                   IF n > Len(t) THEN Fail
                   ELSE IF t[n] = CM THEN ParseMembers(t, n + 1, ks, mm)
                   ELSE IF t[n] = RB
                        THEN [ok |-> TRUE, val |-> JObj(ks, mm), next |-> n + 1]
                   ELSE Fail))))

ParseValue(t, i) ==
    IF i > Len(t) THEN Fail
    ELSE IF t[i] = "null" THEN [ok |-> TRUE, val |-> JNull, next |-> i + 1]
    ELSE IF t[i] = "7" THEN [ok |-> TRUE, val |-> JNum, next |-> i + 1]
    ELSE IF t[i] = "true" THEN [ok |-> TRUE, val |-> JBool, next |-> i + 1]
    ELSE IF t[i] = QT THEN ParseString(t, i)
    ELSE IF t[i] = LK
         THEN Bind(Skip(t, i + 1), LAMBDA n :
              IF n <= Len(t) /\ t[n] = RK
              THEN [ok |-> TRUE, val |-> JArr(<< >>), next |-> n + 1]
              ELSE ParseElems(t, i + 1, << >>))
    ELSE IF t[i] = LB
         THEN Bind(Skip(t, i + 1), LAMBDA n :
              IF n <= Len(t) /\ t[n] = RB
              THEN [ok |-> TRUE, val |-> JObj(<< >>, << >>), next |-> n + 1]
              ELSE ParseMembers(t, i + 1, << >>, << >>))
    ELSE Fail

(***************************************************************************)
(* json.loads: the decoded value, or JSONDecodeError.                      *)
(***************************************************************************)
json_loads(t) ==
    Bind(ParseValue(t, Skip(t, 1)), LAMBDA r :
    IF r.ok /\ Skip(t, r.next) = Len(t) + 1
    THEN [raised |-> FALSE, value |-> r.val]
    ELSE [raised |-> TRUE, exc |-> "JSONDecodeError"])

(***************************************************************************)
(* json.dumps, compact: used to write the bodies and replies the remote    *)
(* endpoint sends.                                                         *)
(***************************************************************************)
Escape(a) == IF a = QT THEN EscQT ELSE IF a = NL THEN EscNL ELSE a

DumpString(s) == <<QT>> \o [x \in 1..Len(s) |-> Escape(s[x])] \o <<QT>>

RECURSIVE dumps(_)
RECURSIVE DumpItems(_, _)
RECURSIVE DumpMembers(_, _, _)

DumpItems(items, i) ==
    IF i > Len(items) THEN << >>
    ELSE (IF i > 1 THEN <<CM>> ELSE << >>) \o dumps(items[i])
         \o DumpItems(items, i + 1)

DumpMembers(keys, m, i) ==
    IF i > Len(keys) THEN << >>
    ELSE (IF i > 1 THEN <<CM>> ELSE << >>) \o DumpString(keys[i]) \o <<CL>>
         \o dumps(m[keys[i]]) \o DumpMembers(keys, m, i + 1)

dumps(v) ==
    CASE v.k = "null" -> <<"null">>
      [] v.k = "num" -> <<"7">>
      [] v.k = "bool" -> <<"true">>
      [] v.k = "str" -> DumpString(v.s)
      [] v.k = "arr" -> <<LK>> \o DumpItems(v.items, 1) \o <<RK>>
      [] v.k = "obj" -> <<LB>> \o DumpMembers(v.keys, v.m, 1) \o <<RB>>

(***************************************************************************)
(* Python operations used on the decoded values.                           *)
(***************************************************************************)
Raise(e) == [raised |-> TRUE, exc |-> e]

\* sep.join(texts)
RECURSIVE Join(_, _)
Join(texts, sep) ==
    IF texts = << >> THEN << >>
    ELSE IF Len(texts) = 1 THEN texts[1]
    ELSE texts[1] \o sep \o Join(Tail(texts), sep)

\* "\n".join(v): v is iterated; every item must be a str.
NewlineJoin(v) ==
    CASE v.k = "arr" ->
            IF \A x \in 1..Len(v.items) : v.items[x].k = "str"
            THEN [raised |-> FALSE,
                  text |-> Join([x \in 1..Len(v.items) |-> v.items[x].s], <<NL>>)]
            ELSE Raise("TypeError")
      [] v.k = "str" ->
            [raised |-> FALSE,
             text |-> Join([x \in 1..Len(v.s) |-> <<v.s[x]>>], <<NL>>)]
      [] v.k = "obj" -> [raised |-> FALSE, text |-> Join(v.keys, <<NL>>)]
      [] OTHER -> Raise("TypeError")

\* data.get(key): None for a missing key
DictGetNoDefault(data, key) == IF key \in DOMAIN data.m THEN data.m[key] ELSE JNull

\* data.get(key, []) of a dict
DictGet(data, key) == IF key \in DOMAIN data.m THEN data.m[key] ELSE JArr(<< >>)

KeyTechnical == <<"technical_assumptions">>
KeySecurity == <<"security_assumptions">>
KeyImplementation == <<"implementation_assumptions">>

EmptyMarker == << >>
ParseFailedMarker == <<"Failed to parse assumptions as JSON">>
ImplementationLabel == <<NL, NL, "Implementation Assumptions:", NL>>

(***************************************************************************)
(* prompts.parse_assumptions_response: the pair it returns, or the         *)
(* exception that leaves it.  Only json.JSONDecodeError is handled.        *)
(***************************************************************************)
parse_assumptions_response(reply) ==
    LET d == json_loads(reply) IN
    IF d.raised
    THEN [raised |-> FALSE, technical |-> ParseFailedMarker,
          security |-> ParseFailedMarker]
    ELSE LET data == d.value IN
         IF data.k # "obj" THEN Raise("AttributeError")
         ELSE LET tech == NewlineJoin(DictGet(data, KeyTechnical))
                  sec == NewlineJoin(DictGet(data, KeySecurity))
                  impl == NewlineJoin(DictGet(data, KeyImplementation))
              IN
              IF tech.raised \/ sec.raised \/ impl.raised THEN Raise("TypeError")
              ELSE [raised |-> FALSE,
                    technical |-> IF impl.text # << >>
                                  THEN tech.text \o ImplementationLabel \o impl.text
                                  ELSE tech.text,
                    security |-> sec.text]

(***************************************************************************)
(* Replies the model endpoint can give to the assumptions request: JSON    *)
(* objects with each of the three keys missing, an array of at most MaxArr *)
(* entries (texts, the empty text, a number), null or a string; JSON that  *)
(* is no object; and texts that are not JSON.                              *)
(***************************************************************************)
EntryValues == {JStr(<< >>), JStr(<<"a">>), JNum}
Arrays == {JArr(items) : items \in UNION {[1..n -> EntryValues] : n \in 0..MaxArr}}
Missing == [k |-> "missing"]
KeyValues == Arrays \cup {Missing, JNull, JStr(<<"a", "b">>)}

ObjectOf(t, s, i) ==
    LET keys == (IF t = Missing THEN << >> ELSE <<KeyTechnical>>)
                \o (IF s = Missing THEN << >> ELSE <<KeySecurity>>)
                \o (IF i = Missing THEN << >> ELSE <<KeyImplementation>>)
        m == [z \in {keys[x] : x \in 1..Len(keys)} |->
                 IF z = KeyTechnical THEN t
                 ELSE IF z = KeySecurity THEN s ELSE i]
    IN JObj(keys, m)

ObjectReplies == {dumps(ObjectOf(t, s, i)) : t, s, i \in KeyValues}

SpecInstance ==
    ObjectOf(JArr(<<JStr(<<"a">>)>>), JArr(<<JStr(<<"b">>)>>), JArr(<<JStr(<<"c">>)>>))

NonObjectReplies ==
    {dumps(JArr(<< >>)), dumps(JArr(<<JStr(<<"a">>)>>)), dumps(JNum),
     dumps(JNull), dumps(JStr(<<"a">>))}

\* valid JSON written with blanks and line breaks, as the prompt shows it
PrettyReply ==
    <<LB, NL, SP, SP, QT, "technical_assumptions", QT, CL, SP, LK, NL, SP, SP,
      QT, "a", QT, NL, SP, RK, CM, NL, SP, QT, "security_assumptions", QT, CL,
      SP, LK, QT, "b", QT, CM, SP, QT, "c", QT, RK, NL, RB, NL>>

Fence == "<code fence>"     \* three backquotes

NotJsonReplies ==
    {<< >>, <<"not json">>, <<LB>>, <<LB, RB, RB>>, <<LK, "7", CM, RK>>,
     <<QT, "a">>, <<QT, "a", NL, "b", QT>>,
     <<LB, QT, "technical_assumptions", QT, CL, RB>>,
     <<Fence, "json", NL>> \o dumps(SpecInstance) \o <<NL, Fence>>,
     <<"Here is the JSON:", SP>> \o dumps(SpecInstance)}

Replies ==
    ObjectReplies \cup NonObjectReplies \cup NotJsonReplies
    \cup {dumps(SpecInstance), PrettyReply, dumps(JBool)}

(***************************************************************************)
(* The state of a fresh session: initialize_session_state, before the      *)
(* first script run has read a widget.                                     *)
(***************************************************************************)
Unset == <<"<unset>">>
NotApplied == [applied |-> FALSE]

initialize_session_state ==
    /\ messages = << >>
    /\ use_two_call = FALSE
    /\ use_three_call = TRUE

LocalsUnset ==
    /\ user_input = Unset
    /\ primary_response = Unset
    /\ improved_response = Unset
    /\ technical_assumptions = Unset
    /\ security_assumptions = Unset
    /\ assumptions_response = Unset
    /\ response = Unset
    /\ posts = << >>
    /\ render_raised = FALSE
    /\ shown = {}

(***************************************************************************)
(* SolidityCopilot.make_api_call.                                          *)
(***************************************************************************)
DefaultTimeout == 30
ImproveTimeout == 45
AssumptionsTimeout == 30
MaxTokens == 6000

ExpertPrompt == <<"You are a Solidity expert, and you will be generating smart contracts. [...]">>
ReviewerPrompt == <<"You are a senior Solidity expert specializing in security, gas optimization, and best practices.">>
AnalystPrompt == <<"You are a Solidity code analyst who identifies assumptions and design decisions in smart contract code.">>

\* only the first sentence of the prompt is passed on
TruncatedExpertPrompt == <<"You are a Solidity expert, and you will be generating smart contracts.">>

get_solidity_expert_prompt == ExpertPrompt

\* the keyword arguments of session.post
PostRequest(system_prompt, user_prompt, timeout) ==
    [url |-> "{base_url}/chat/completions",
     json |-> [model |-> "model_name",
               messages |-> << [role |-> "system", content |-> system_prompt],
                               [role |-> "user", content |-> user_prompt] >>,
               temperature |-> "0.7",
               max_tokens |-> MaxTokens,
               stream |-> FALSE],
     timeout |-> timeout,
     verify |-> FALSE]

\* v[key] for a str key
GetItem(v, key) ==
    CASE v.k = "obj" -> IF key \in DOMAIN v.m
                        THEN [raised |-> FALSE, value |-> v.m[key]]
                        ELSE Raise("KeyError")
      [] OTHER -> Raise("TypeError")

\* v[0]
GetFirst(v) ==
    CASE v.k = "arr" -> IF v.items # << >>
                        THEN [raised |-> FALSE, value |-> v.items[1]]
                        ELSE Raise("IndexError")
      [] v.k = "str" -> IF v.s # << >>
                        THEN [raised |-> FALSE, value |-> JStr(<<v.s[1]>>)]
                        ELSE Raise("IndexError")
      [] v.k = "obj" -> Raise("KeyError")
      [] OTHER -> Raise("TypeError")

\* len(v) is defined
HasLen(v) == v.k \in {"str", "arr", "obj"}

\* response_data["choices"][0]["message"]["content"]
ContentOf(response_data) ==
    LET choices == GetItem(response_data, <<"choices">>) IN
    IF choices.raised THEN choices
    ELSE LET first == GetFirst(choices.value) IN
         IF first.raised THEN first
         ELSE LET message == GetItem(first.value, <<"message">>) IN
              IF message.raised THEN message
              ELSE GetItem(message.value, <<"content">>)

\* the status is not looked at
StatusIgnored(resp) == TRUE

\* response.status_code == 200
StatusOk(resp) == resp.status_code = 200

\* resp is what session.post did: it raised, or it returned a response.
\* The outcome is the content returned or the exception raised.
make_api_call(system_prompt, user_prompt, timeout, resp) ==
    IF resp.kind = "raise"
    THEN [raised |-> TRUE, exc |-> "Exception", msg |-> "API call failed",
          cause |-> resp.exc]
    ELSE IF StatusOk(resp)
         THEN LET response_data == json_loads(resp.text) IN
              IF response_data.raised THEN response_data
              ELSE LET content == ContentOf(response_data.value) IN
                   IF content.raised THEN content
                   ELSE IF ~HasLen(content.value) THEN Raise("TypeError")
                   ELSE [raised |-> FALSE, content |-> content.value]
         ELSE [raised |-> TRUE, exc |-> "Exception", msg |-> "API Error",
               status_code |-> resp.status_code, text |-> resp.text]

(***************************************************************************)
(* What the endpoint can answer to one POST.  Each answer is kept with the *)
(* document it was written from: whether choices[0].message.content is    *)
(* there, and the value at it.                                             *)
(***************************************************************************)
Obj1(key, v) == JObj(<<key>>, [z \in {key} |-> v])

ChatCompletion(content) ==
    Obj1(<<"choices">>, JArr(<<Obj1(<<"message">>, Obj1(<<"content">>, content))>>))

NoPath == [present |-> FALSE]
Path(v) == [present |-> TRUE, value |-> v]

BodiesWithoutPath ==
    {<< >>, <<"<html>Bad Gateway</html>">>, dumps(JNull), dumps(JArr(<< >>)),
     dumps(JStr(<<"ok">>)), dumps(JObj(<< >>, << >>)),
     dumps(Obj1(<<"error">>, JStr(<<"rate limited">>))),
     dumps(Obj1(<<"choices">>, JNull)),
     dumps(Obj1(<<"choices">>, JArr(<< >>))),
     dumps(Obj1(<<"choices">>, JObj(<< >>, << >>))),
     dumps(Obj1(<<"choices">>, JArr(<<JObj(<< >>, << >>)>>))),
     dumps(Obj1(<<"choices">>, JArr(<<Obj1(<<"message">>, JNull)>>))),
     dumps(Obj1(<<"choices">>, JArr(<<Obj1(<<"message">>, JObj(<< >>, << >>))>>)))}

ContentTexts == {<< >>, <<"contract A {}">>, <<"contract B {}">>, dumps(SpecInstance)}
ContentValues ==
    {JStr(t) : t \in ContentTexts} \cup {JNull, JNum, JBool, JArr(<< >>)}

StatusCodes == {200, 401, 500}
PostExceptions == {"ConnectionError", "SSLError", "ReadTimeout"}

Answers ==
    {[resp |-> [kind |-> "raise", exc |-> e], path |-> NoPath] : e \in PostExceptions}
    \cup {[resp |-> [kind |-> "http", status_code |-> c, text |-> b], path |-> NoPath] :
            c \in StatusCodes, b \in BodiesWithoutPath}
    \cup {[resp |-> [kind |-> "http", status_code |-> c,
                     text |-> dumps(ChatCompletion(v))], path |-> Path(v)] :
            c \in StatusCodes, v \in ContentValues}

(***************************************************************************)
(* SolidityCopilot.get_response, three-call mode, and the turn handlers of *)
(* main().  A script run is sequential: it reads one widget event, and if  *)
(* the event starts a turn it appends the user entry, runs get_response    *)
(* (up to three blocking POSTs), appends the assistant entry and ends.     *)
(* pc is "idle" between script runs and names the next step inside one.    *)
(***************************************************************************)
\* the handler logs the error and returns nothing
NoReturnValue == Unset

\* the partial output kept in front of the apology
ApologyAfterPartialOutput ==
    (IF primary_response = Unset THEN << >> ELSE primary_response \o <<NL, NL>>)
    \o <<"Sorry, I encountered an error. Please try again.">>

Apology == <<"Sorry, I encountered an error. Please try again.">>
TechnicalErrorMarker == <<"Error extracting technical assumptions from code analysis">>
SecurityErrorMarker == <<"Error extracting security assumptions from code analysis">>

ButtonPrompts ==
    {<<"Create a Registry Style contract for managing Artifacts">>,
     <<"Create a Vault Contract">>,
     <<"Create a Staking Contract with yield">>,
     <<"Create a Marketplace Contract to allow buying, selling, and trading of in-game assets (NFTs or tokens)">>,
     <<"Create a Escrow / Prize Pool Contracts to hold funds for tournaments, wagers, or bets until game outcomes are verified">>,
     <<"Create Reward Distribution Contracts for play-to-earn reward payouts">>}

\* what st.chat_input can hand to the script: nothing, or a typed text
ChatInputs == {<< >>, <<"How do I make a contract pausable?">>}

improvement_prompt(user_input_, primary_response_) ==
    <<"Please review and improve the following Solidity code. Focus on: [...]",
      NL, NL, "Original Request: ">> \o user_input_
    \o <<NL, NL, "Generated Code:", NL>> \o primary_response_
    \o <<NL, NL, "Please provide an improved version of the code [...]">>

\* the step-1 text sent for analysis
AssumptionsPromptFromPrimary(user_input_, improved_response_) ==
    <<"Analyze the following Solidity code and identify all assumptions [...]",
      NL, NL, "Original User Request: ">> \o user_input_
    \o <<NL, NL, "Generated Code:", NL>> \o primary_response
    \o <<NL, NL, "**IMPORTANT: Respond with valid JSON only in this exact format:** [...]">>

get_assumptions_prompt(user_input_, improved_response_) ==
    <<"Analyze the following Solidity code and identify all assumptions [...]",
      NL, NL, "Original User Request: ">> \o user_input_
    \o <<NL, NL, "Generated Code:", NL>> \o improved_response_
    \o <<NL, NL, "**IMPORTANT: Respond with valid JSON only in this exact format:** [...]">>

AssumptionsHeader ==
    <<NL, "## **All Assumptions Made in Final Code**", NL, NL,
      "### **Technical Assumptions in Code**", NL>>
SecurityHeader == <<NL, NL, "### **Security Assumptions in Code**", NL>>

all_assumptions(technical, security) ==
    AssumptionsHeader \o technical \o SecurityHeader \o security \o <<SP>>

Banner ==
    <<"---", NL, "*Two-Call Architecture Complete* - This response has been improved [...] are documented above.">>

\* the step-1 text returned in place of the step-2 text
ComposedFromPrimary(improved, technical, security) ==
    primary_response \o <<NL, NL>> \o all_assumptions(technical, security)
    \o <<NL, NL>> \o Banner

\* the f-string get_response returns in three-call mode
ComposedResponse(improved, technical, security) ==
    improved \o <<NL, NL>> \o all_assumptions(technical, security) \o <<NL, NL>> \o Banner

(***************************************************************************)
(* The answers the endpoint gives during a session.                        *)
(***************************************************************************)
FailingAnswers ==
    {[kind |-> "raise", exc |-> "ReadTimeout"],
     [kind |-> "http", status_code |-> 500, text |-> <<"<html>Bad Gateway</html>">>],
     [kind |-> "http", status_code |-> 200, text |-> dumps(Obj1(<<"choices">>, JArr(<< >>)))],
     [kind |-> "http", status_code |-> 200, text |-> dumps(ChatCompletion(JNull))]}

Completion(text) ==
    [kind |-> "http", status_code |-> 200, text |-> dumps(ChatCompletion(JStr(text)))]

CodeTexts == {<<"contract A {}">>, <<"contract B {}">>}
ReplyTexts == {dumps(SpecInstance), <<"I assumed an owner role.">>, dumps(JArr(<< >>))}

CodeAnswers == FailingAnswers \cup {Completion(t) : t \in CodeTexts}
ReplyAnswers == FailingAnswers \cup {Completion(t) : t \in ReplyTexts}

\* the buttons pressed in the sessions explored: the six handlers are the
\* same code with a different prompt literal
ButtonsPressed ==
    {<<"Create a Registry Style contract for managing Artifacts">>,
     <<"Create Reward Distribution Contracts for play-to-earn reward payouts">>}

\* one POST as the turn saw it: what was sent, whether the call raised, and
\* the text it returned
Post(system_prompt, user_prompt, timeout, out) ==
    [request |-> PostRequest(system_prompt, user_prompt, timeout),
     raised |-> out.raised,
     content |-> IF out.raised THEN Unset ELSE out.content.s]

\* a history entry; turn tells the dict objects of different turns apart
Entry(role, content, turn) == [role |-> role, content |-> content, turn |-> turn]

\* an apology is shown but not recorded
AppendUnlessApology(history, entry) ==
    IF entry.content = <<"Sorry, I encountered an error. Please try again.">>
    THEN history ELSE Append(history, entry)

\* st.session_state.messages.append(entry)
AppendEntry(history, entry) == Append(history, entry)

\* the last entry survives the clear
ClearedButLast ==
    IF messages = << >> THEN << >> ELSE <<messages[Len(messages)]>>

\* st.session_state.messages = []
ClearedMessages == << >>

(***************************************************************************)
(* main(): a script run that finds the API key missing stops at            *)
(* SolidityCopilot.__init__ (st.stop) before any widget is read.           *)
(***************************************************************************)
NoKey == "<None>"           \* os.getenv found no FIREWORKS_API_KEY

\* the key is never looked at
KeyNotChecked == TRUE

\* not (not self.api_key)
KeyPresent == api_key \notin {NoKey, ""}

\* the flags come from sidebar checkboxes
SidebarFlagsFromWidgets ==
    /\ use_two_call' \in BOOLEAN
    /\ use_three_call' \in BOOLEAN

SidebarFlags ==
    /\ use_two_call' = FALSE
    /\ use_three_call' = TRUE

\* widgets are read while a turn is in progress
IdleOrBusy == pc # "stopped"

\* main() reads its widgets at the start of a script run; the handler of a
\* widget runs inside that script run, to its end
Idle == pc = "idle"

\* a failed call is sent once more
IssueWithRetry(log, post) ==
    IF post.raised THEN Append(Append(log, post), post) ELSE Append(log, post)

\* the one session.post of a make_api_call, added to the turn's POSTs
Issue(log, post) == Append(log, post)

\* the spinner block shows its result when it is left
SpinnerThenShow(artifact) == {artifact}

\* with st.spinner(...): nothing of the artifact assigned inside is rendered
Spinner(artifact) == {}

\* what the code after step 3 renders, in order
RenderStages == <<"improvement expander", "assumptions expander",
                  "flow visualization">>

\* the script run stops at SolidityCopilot.__init__; so does every later one
StopWithoutKey ==
    /\ pc = "idle" /\ ~KeyPresent
    /\ pc' = "stopped"
    /\ UNCHANGED << api_key, messages, use_two_call, use_three_call, user_input,
                    primary_response, improved_response, technical_assumptions,
                    security_assumptions, assumptions_response, response, posts,
                    render_raised, shown, nturns, clearedAt, completed,
                    fn_in, fn_out >>

\* "Clear Chat" pressed
ClearChat ==
    /\ Idle /\ KeyPresent
    /\ SidebarFlags
    /\ messages' = ClearedMessages
    /\ clearedAt' = nturns
    /\ completed' = 0
    /\ UNCHANGED << api_key, pc, user_input, primary_response, improved_response,
                    technical_assumptions, security_assumptions,
                    assumptions_response, response, posts, render_raised, shown,
                    nturns, fn_in, fn_out >>

\* the part of a turn handler before get_response issues its first POST
StartTurn(prompt) ==
    /\ Idle /\ KeyPresent
    /\ nturns < MaxTurns
    /\ SidebarFlags
    /\ nturns' = nturns + 1
    /\ messages' = AppendEntry(messages, Entry("user", prompt, nturns + 1))
    /\ user_input' = prompt
    /\ pc' = "generate"
    /\ UNCHANGED << api_key, primary_response, improved_response,
                    technical_assumptions, security_assumptions,
                    assumptions_response, response, posts, render_raised, shown,
                    clearedAt, completed, fn_in, fn_out >>

\* one of the quick-start buttons pressed
PressButton == \E prompt \in ButtonsPressed : StartTurn(prompt)

\* the empty input starts a turn too
ChatInputUnchecked == \E prompt \in ChatInputs : StartTurn(prompt)

\* if prompt := st.chat_input(...)
ChatInput == \E prompt \in ChatInputs : prompt # << >> /\ StartTurn(prompt)

\* step 1, or the single call of the one-call modes
Generate ==
    /\ pc = "generate"
    /\ \E resp \in CodeAnswers :
         LET out == make_api_call(get_solidity_expert_prompt, user_input,
                                  DefaultTimeout, resp) IN
         /\ posts' = Issue(posts, Post(get_solidity_expert_prompt, user_input,
                                       DefaultTimeout, out))
         /\ IF out.raised
            THEN /\ response' = Apology
                 /\ pc' = "return"
                 /\ UNCHANGED << primary_response, shown >>
            ELSE IF use_three_call
            THEN /\ primary_response' = out.content.s
                 /\ shown' = shown \cup Spinner("primary_response")
                 /\ pc' = "improve"
                 /\ UNCHANGED response
            ELSE /\ response' = out.content.s
                 /\ pc' = "return"
                 /\ UNCHANGED << primary_response, shown >>
    /\ UNCHANGED << api_key, messages, use_two_call, use_three_call, user_input,
                    improved_response, technical_assumptions, security_assumptions,
                    assumptions_response, render_raised,
                    nturns, clearedAt, completed, fn_in, fn_out >>

\* step 2
Improve ==
    /\ pc = "improve"
    /\ \E resp \in CodeAnswers :
         LET prompt == improvement_prompt(user_input, primary_response)
             out == make_api_call(ReviewerPrompt, prompt, ImproveTimeout, resp) IN
         /\ posts' = Issue(posts, Post(ReviewerPrompt, prompt, ImproveTimeout, out))
         /\ IF out.raised
            THEN /\ response' = Apology
                 /\ pc' = "return"
                 /\ UNCHANGED << improved_response, shown >>
            ELSE /\ improved_response' = out.content.s
                 /\ shown' = shown \cup Spinner("improved_response")
                 /\ pc' = "assumptions"
                 /\ UNCHANGED response
    /\ UNCHANGED << api_key, messages, use_two_call, use_three_call, user_input,
                    primary_response, technical_assumptions, security_assumptions,
                    assumptions_response, render_raised,
                    nturns, clearedAt, completed, fn_in, fn_out >>

\* the parser's marker used for every failure of step 3
AssumptionsFallbackParseMarker == [technical |-> ParseFailedMarker,
                                   security |-> ParseFailedMarker]

\* the except branch assigns nothing
AssumptionsFallbackUnassigned == [technical |-> Unset, security |-> Unset]

\* the assignments of the except branch of step 3
AssumptionsFallback == [technical |-> TechnicalErrorMarker,
                        security |-> SecurityErrorMarker]

\* step 3 with its own try/except: the call, then the parse
ExtractAssumptions ==
    /\ pc = "assumptions"
    /\ \E resp \in ReplyAnswers :
         LET prompt == get_assumptions_prompt(user_input, improved_response)
             out == make_api_call(AnalystPrompt, prompt, AssumptionsTimeout, resp)
             parsed == IF out.raised THEN out
                       ELSE parse_assumptions_response(out.content.s)
         IN
         /\ posts' = Issue(posts, Post(AnalystPrompt, prompt, AssumptionsTimeout, out))
         /\ assumptions_response' = IF out.raised THEN Unset ELSE out.content.s
         /\ IF parsed.raised
            THEN /\ technical_assumptions' = AssumptionsFallback.technical
                 /\ security_assumptions' = AssumptionsFallback.security
            ELSE /\ technical_assumptions' = parsed.technical
                 /\ security_assumptions' = parsed.security
    /\ pc' = "render"
    /\ UNCHANGED << api_key, messages, use_two_call, use_three_call, user_input,
                    primary_response, improved_response, response, render_raised,
                    shown, nturns, clearedAt, completed, fn_in, fn_out >>

\* the rendering has a handler of its own and the composed text is returned
RenderErrorIgnored(composed) == composed

\* the except of line 369 also encloses lines 294-362: what a raise there
\* leaves as the return value
RenderErrorCaught(composed) == Apology

\* the expanders, the tables and the flow visualization, then the return;
\* a Streamlit call that raises here is caught by the outer handler.
\* raisedAt is the stage that raised, or 0 when none did.
Render ==
    /\ pc = "render"
    /\ \E raisedAt \in 0..Len(RenderStages) :
         /\ render_raised' = (raisedAt # 0)
         /\ shown' = shown \cup
                {RenderStages[j] : j \in {k \in 1..Len(RenderStages) :
                                            raisedAt = 0 \/ k < raisedAt}}
         /\ LET composed == ComposedResponse(improved_response,
                                             technical_assumptions,
                                             security_assumptions) IN
            response' = IF raisedAt # 0 THEN RenderErrorCaught(composed)
                        ELSE composed
    /\ pc' = "return"
    /\ UNCHANGED << api_key, messages, use_two_call, use_three_call, user_input,
                    primary_response, improved_response, technical_assumptions,
                    security_assumptions, assumptions_response, posts, nturns,
                    clearedAt, completed, fn_in, fn_out >>

\* the script run stops on the error path
ReturnedWithoutError == pc = "return" /\ response # Apology

\* get_response has returned to the turn handler of main()
ReturnReached == pc = "return"

\* back in main(): the assistant entry is appended and the script run ends
Reply ==
    /\ ReturnReached
    /\ messages' = AppendEntry(messages, Entry("assistant", response, nturns))
    /\ completed' = completed + 1
    /\ pc' = "idle"
    /\ user_input' = Unset
    /\ primary_response' = Unset
    /\ improved_response' = Unset
    /\ technical_assumptions' = Unset
    /\ security_assumptions' = Unset
    /\ assumptions_response' = Unset
    /\ response' = Unset
    /\ posts' = << >>
    /\ render_raised' = FALSE
    /\ shown' = {}
    /\ UNCHANGED << api_key, use_two_call, use_three_call, nturns, clearedAt,
                    fn_in, fn_out >>

Init ==
    /\ api_key \in {NoKey, "", "key"}
    /\ initialize_session_state
    /\ pc = "idle"
    /\ LocalsUnset
    /\ nturns = 0 /\ clearedAt = 0 /\ completed = 0
    /\ fn_in = NotApplied
    /\ fn_out = NotApplied

Next ==
    \/ StopWithoutKey
    \/ ClearChat
    \/ PressButton
    \/ ChatInput
    \/ Generate
    \/ Improve
    \/ ExtractAssumptions
    \/ Render
    \/ Reply

Spec == Init /\ [][Next]_vars

(***************************************************************************)
(* The specification of the pure functions: one application of a function  *)
(* to an argument drawn from its inputs.                                   *)
(***************************************************************************)
NoDoc == [k |-> "none"]

InstanceDoc == [technical |-> JArr(<<JStr(<<"a">>)>>),
                security |-> JArr(<<JStr(<<"b">>)>>),
                implementation |-> JArr(<<JStr(<<"c">>)>>)]

ParseDocs ==
    {[technical |-> t, security |-> s, implementation |-> i] : t, s, i \in KeyValues}
    \cup {InstanceDoc}

ParseInputs ==
    {[f |-> "parse_assumptions_response",
      arg |-> dumps(ObjectOf(d.technical, d.security, d.implementation)),
      doc |-> d] : d \in ParseDocs}
    \cup {[f |-> "parse_assumptions_response", arg |-> r, doc |-> NoDoc] :
            r \in NonObjectReplies \cup NotJsonReplies \cup {PrettyReply, dumps(JBool)}}

ApiInputs ==
    {[f |-> "make_api_call", system_prompt |-> sp, user_prompt |-> <<"Create a Vault Contract">>,
      timeout |-> t, resp |-> a.resp, path |-> a.path] :
         sp \in {ExpertPrompt, ReviewerPrompt}, t \in {DefaultTimeout, ImproveTimeout},
         a \in Answers}

FnInit ==
    /\ api_key = "key"
    /\ initialize_session_state
    /\ pc = "idle"
    /\ LocalsUnset
    /\ nturns = 0 /\ clearedAt = 0 /\ completed = 0
    /\ fn_in \in ParseInputs \cup ApiInputs
    /\ fn_out = NotApplied

ApplyParse ==
    /\ fn_in.f = "parse_assumptions_response"
    /\ fn_out = NotApplied
    /\ fn_out' = [applied |-> TRUE, out |-> parse_assumptions_response(fn_in.arg)]
    /\ UNCHANGED << session, fn_in >>

ApplyApiCall ==
    /\ fn_in.f = "make_api_call"
    /\ fn_out = NotApplied
    /\ fn_out' = [applied |-> TRUE,
                  out |-> make_api_call(fn_in.system_prompt, fn_in.user_prompt,
                                        fn_in.timeout, fn_in.resp)]
    /\ UNCHANGED << session, fn_in >>

FnNext == ApplyParse \/ ApplyApiCall

FnSpec == FnInit /\ [][FnNext]_vars

(***************************************************************************)
(* Properties.                                                             *)
(***************************************************************************)
IsPrefix(p, t) == Len(p) <= Len(t) /\ SubSeq(t, 1, Len(p)) = p
IsSuffix(p, t) == Len(p) <= Len(t) /\ SubSeq(t, Len(t) - Len(p) + 1, Len(t)) = p
Occurs(p, t) ==
    \E i \in 0..Len(t) : i + Len(p) <= Len(t) /\ SubSeq(t, i + 1, i + Len(p)) = p

Returning == pc = "return" /\ use_three_call
CallOk(i) == Len(posts) >= i /\ ~posts[i].raised
CallFailed(i) == Len(posts) = i /\ posts[i].raised
UserContent(i) == posts[i].request.json.messages[2].content

\* the text a three-call turn returns around the two subsections
Assembled(improved, technical, security) ==
    improved \o <<NL, NL, NL, "## **All Assumptions Made in Final Code**", NL, NL,
                  "### **Technical Assumptions in Code**", NL>>
    \o technical
    \o <<NL, NL, "### **Security Assumptions in Code**", NL>>
    \o security
    \o <<SP, NL, NL, "---", NL,
         "*Two-Call Architecture Complete* - This response has been improved [...] are documented above.">>

\* the step-1 text is in the returned text only where the model repeated it
PrimaryOnlyIfRepeated ==
    (/\ posts[1].content # << >>
     /\ ~Occurs(posts[1].content, posts[2].content)
     /\ ~Occurs(posts[1].content, technical_assumptions)
     /\ ~Occurs(posts[1].content, security_assumptions))
    => ~Occurs(posts[1].content, response)

JsonButNoObject == {dumps(JArr(<< >>))}
NoJsonAtAll == {<<"I assumed an owner role.">>}

C2_ApologyOnly ==
    (Returning /\ (CallFailed(1) \/ CallFailed(2))) =>
        response = <<"Sorry, I encountered an error. Please try again.">>

C2_Witness ==
    /\ Returning /\ CallFailed(2)
    /\ posts[1].content = <<"contract A {}">>
    /\ response = <<"Sorry, I encountered an error. Please try again.">>

Step3Failed ==
    /\ Len(posts) = 3
    /\ \/ posts[3].raised
       \/ posts[3].content \in JsonButNoObject \cup NoJsonAtAll

C4_OrderedAndDependent ==
    /\ Len(posts) <= 3
    /\ Len(posts) >= 1 =>
         /\ UserContent(1) = user_input
         /\ posts[1].request.timeout = 30
    /\ (use_three_call /\ Len(posts) >= 2) =>
         /\ ~posts[1].raised
         /\ Occurs(user_input, UserContent(2))
         /\ Occurs(posts[1].content, UserContent(2))
         /\ posts[2].request.timeout = 45
    /\ (use_three_call /\ Len(posts) >= 3) =>
         /\ ~posts[2].raised
         /\ Occurs(user_input, UserContent(3))
         /\ Occurs(posts[2].content, UserContent(3))
         /\ ~Occurs(posts[1].content, posts[2].content)
              => ~Occurs(posts[1].content, UserContent(3))
         /\ posts[3].request.timeout = 30

C4_Witness ==
    /\ Len(posts) = 3
    /\ posts[1].content = <<"contract A {}">>
    /\ posts[2].content = <<"contract B {}">>

\* C5: the history only changes by one entry appended at its end or by being
\* cleared as a whole; after N completed turns since the last clear it holds
\* 2N entries, with roles user, assistant, user, assistant, ...
C5_Step ==
    \/ messages' = messages
    \/ messages' = << >>
    \/ /\ Len(messages') = Len(messages) + 1
       /\ SubSeq(messages', 1, Len(messages)) = messages

C5_Shape ==
    /\ pc = "idle" => Len(messages) = 2 * completed
    /\ \A i \in 1..Len(messages) :
         messages[i].role = IF i % 2 = 1 THEN "user" ELSE "assistant"

C5_AppendOnly == [](C5_Shape) /\ [][C5_Step]_vars

C5_Witness ==
    /\ pc = "idle" /\ completed = 2 /\ Len(messages) = 4
    /\ messages[4].content = <<"Sorry, I encountered an error. Please try again.">>

\* C6: Clear Chat empties the history, and K turns completed after a clear
\* leave exactly 2K entries, none of them from before the clear.
C6_FreshAfterClear ==
    /\ pc = "idle" => Len(messages) = 2 * (nturns - clearedAt)
    /\ \A i \in 1..Len(messages) : messages[i].turn > clearedAt

C6_Witness ==
    /\ pc = "idle" /\ clearedAt = 1 /\ nturns = 2 /\ Len(messages) = 2

(***************************************************************************)
(* Properties of parse_assumptions_response and make_api_call (FnSpec).    *)
(***************************************************************************)
Parsed == fn_out.applied /\ fn_in.f = "parse_assumptions_response"
Called == fn_out.applied /\ fn_in.f = "make_api_call"

\* a key of the reply that is missing or an array of texts
TextArrayOrMissing(v) ==
    \/ v = Missing
    \/ v.k = "arr" /\ \A x \in 1..Len(v.items) : v.items[x].k = "str"

EntriesOf(v) == IF v = Missing THEN << >> ELSE [x \in 1..Len(v.items) |-> v.items[x].s]

WellFormedDoc ==
    /\ fn_in.doc # NoDoc
    /\ TextArrayOrMissing(fn_in.doc.technical)
    /\ TextArrayOrMissing(fn_in.doc.security)
    /\ TextArrayOrMissing(fn_in.doc.implementation)

\* C7 as stated: security is the security entries joined by newline, and
\* technical the technical entries joined by newline followed, exactly when
\* the implementation array is non-empty, by the label and the implementation
\* entries joined by newline; a missing key counts as an empty array.
C7_AsStated ==
    (Parsed /\ WellFormedDoc) =>
        /\ ~fn_out.out.raised
        /\ fn_out.out.security = Join(EntriesOf(fn_in.doc.security), <<NL>>)
        /\ fn_out.out.technical =
             IF EntriesOf(fn_in.doc.implementation) # << >>
             THEN Join(EntriesOf(fn_in.doc.technical), <<NL>>)
                  \o <<NL, NL, "Implementation Assumptions:", NL>>
                  \o Join(EntriesOf(fn_in.doc.implementation), <<NL>>)
             ELSE Join(EntriesOf(fn_in.doc.technical), <<NL>>)

\* C7 amended: the label and the implementation entries joined by newline
\* follow exactly when that joined text is non-empty: an implementation
\* array that is empty, missing, or holds only one empty text adds nothing.
C7_Amended ==
    (Parsed /\ WellFormedDoc) =>
        /\ ~fn_out.out.raised
        /\ fn_out.out.security = Join(EntriesOf(fn_in.doc.security), <<NL>>)
        /\ fn_out.out.technical =
             IF Join(EntriesOf(fn_in.doc.implementation), <<NL>>) # << >>
             THEN Join(EntriesOf(fn_in.doc.technical), <<NL>>)
                  \o <<NL, NL, "Implementation Assumptions:", NL>>
                  \o Join(EntriesOf(fn_in.doc.implementation), <<NL>>)
             ELSE Join(EntriesOf(fn_in.doc.technical), <<NL>>)

C7_Witness ==
    /\ Parsed /\ fn_in.doc = InstanceDoc
    /\ fn_out.out.technical = <<"a", NL, NL, "Implementation Assumptions:", NL, "c">>
    /\ fn_out.out.security = <<"b">>

C9_NoParseExceptionEscapes ==
    Parsed =>
        /\ ~fn_out.out.raised
        /\ (fn_in.doc = NoDoc /\ fn_in.arg # PrettyReply) =>
              fn_out.out.technical = <<"Failed to parse assumptions as JSON">>

CompletedOk == fn_in.resp.kind = "http" /\ fn_in.resp.status_code = 200

Non200Error ==
    (fn_in.resp.kind = "http" /\ fn_in.resp.status_code # 200) =>
        /\ fn_out.out.raised
        /\ {"status_code", "text"} \subseteq DOMAIN fn_out.out
        /\ fn_out.out.status_code = fn_in.resp.status_code
        /\ fn_out.out.text = fn_in.resp.text

InTurn == pc \in {"generate", "improve", "assumptions", "render", "return"}

\* C11 Each step makes one POST and never repeats it: a failed POST is the
\* last POST of its turn, a turn issues at most three POSTs, and when
\* get_response returns it has issued exactly one if step 1 failed, exactly
\* two if step 2 failed, and exactly three whenever step 2 succeeded.
C11_SingleAttempt ==
    /\ Len(posts) <= 3
    /\ \A i \in 1..Len(posts) : posts[i].raised => i = Len(posts)
    /\ pc = "improve" => Len(posts) = 1
    /\ pc = "assumptions" => Len(posts) = 2
    /\ pc = "render" => Len(posts) = 3
    /\ Returning =>
         /\ Len(posts) >= 1
         /\ posts[1].raised => Len(posts) = 1
         /\ (Len(posts) >= 2 /\ posts[2].raised) => Len(posts) = 2
         /\ (Len(posts) >= 2 /\ ~posts[2].raised) => Len(posts) = 3

C11_Witness ==
    /\ Returning /\ Len(posts) = 3
    /\ ~posts[1].raised /\ ~posts[2].raised /\ posts[3].raised

\* C12 While the API key is absent (not set, or empty) the script stops at
\* initialization: no turn is started, no entry is in the history, no POST
\* is issued, and the script is either not yet run or stopped.
C12_NoKeyNoChat ==
    api_key \in {"<None>", ""} =>
        /\ pc \in {"idle", "stopped"}
        /\ nturns = 0
        /\ messages = << >>
        /\ posts = << >>
        /\ response = Unset

C12_Witness == api_key = "<None>" /\ pc = "stopped" /\ messages = << >>

\* C13 The intermediate artifacts are rendered only after step 3 has
\* completed: while fewer than three POSTs have been issued nothing is
\* rendered, and a turn that failed in step 1 or 2 returns with nothing
\* rendered and with the bare apology as the text to record, even when
\* step 1 had produced primary_response.
C13_NoPartialOutput ==
    /\ shown # {} => (pc = "return" /\ Len(posts) = 3)
    /\ (Returning /\ (CallFailed(1) \/ CallFailed(2))) =>
          /\ shown = {}
          /\ response = <<"Sorry, I encountered an error. Please try again.">>
          /\ improved_response = Unset

C13_Witness ==
    /\ Returning /\ CallFailed(2)
    /\ primary_response = <<"contract A {}">>
    /\ shown = {}

\* C14 Every request of a turn started from the chat input or a quick-start
\* button carries a non-empty user prompt: the user-role content of each
\* POST issued is a non-empty text, and that of step 1 is the user's input.
C14_UserPromptNonEmpty ==
    /\ InTurn => user_input # << >>
    /\ \A i \in 1..Len(posts) :
          /\ posts[i].request.json.messages[2].role = "user"
          /\ Len(UserContent(i)) > 0
    /\ Len(posts) >= 1 => UserContent(1) = user_input

C14_Witness ==
    /\ Len(posts) = 3
    /\ user_input = <<"How do I make a contract pausable?">>
    /\ UserContent(1) = user_input

\* step 3's call returned a reply and the reply could not be parsed
ParsingFailed ==
    /\ pc \in {"render", "return"}
    /\ Len(posts) = 3 /\ ~posts[3].raised
    /\ posts[3].content \in JsonButNoObject \cup NoJsonAtAll

\* C15 as stated: when parsing of the assumptions reply fails, the two
\* fields of the record are empty, never null/undefined.
C15_AsStated ==
    ParsingFailed =>
        /\ technical_assumptions = << >>
        /\ security_assumptions = << >>

\* C15 amended: when parsing of the assumptions reply fails, the two
\* fields are never null/undefined and never empty: each holds a fixed
\* marker text, "Failed to parse assumptions as JSON" in both when the
\* reply is not JSON, and "Error extracting technical/security assumptions
\* from code analysis" when the reply is JSON of another shape.
C15_Amended ==
    ParsingFailed =>
        /\ technical_assumptions # Unset /\ security_assumptions # Unset
        /\ technical_assumptions # << >> /\ security_assumptions # << >>
        /\ posts[3].content \in NoJsonAtAll =>
              /\ technical_assumptions = <<"Failed to parse assumptions as JSON">>
              /\ security_assumptions = <<"Failed to parse assumptions as JSON">>
        /\ posts[3].content \in JsonButNoObject =>
              /\ technical_assumptions =
                   <<"Error extracting technical assumptions from code analysis">>
              /\ security_assumptions =
                   <<"Error extracting security assumptions from code analysis">>

C15_Witness ==
    /\ ParsingFailed /\ pc = "return"
    /\ posts[3].content = <<"I assumed an owner role.">>
    /\ security_assumptions = <<"Failed to parse assumptions as JSON">>

\* every user entry is the open entry of the turn in progress or is
\* directly followed by the assistant entry of its own turn
C16_Paired ==
    \A i \in 1..Len(messages) :
        \/ messages[i].role = "assistant" /\ i > 1
           /\ messages[i - 1].role = "user"
           /\ messages[i - 1].turn = messages[i].turn
        \/ messages[i].role = "user" /\ i = Len(messages)
           /\ InTurn /\ messages[i].turn = nturns
           /\ messages[i].content = user_input
        \/ messages[i].role = "user" /\ i < Len(messages)
           /\ messages[i + 1].role = "assistant"
           /\ messages[i + 1].turn = messages[i].turn

\* the POSTs issued so far all belong to the turn in progress
C16_OwnPosts ==
    /\ ~InTurn => posts = << >>
    /\ InTurn => \A i \in 1..Len(posts) : Occurs(user_input, UserContent(i))

\* while a turn is in progress no turn is started, the history is not
\* cleared, and the only change of the history is the turn's assistant entry
C16_Step ==
    InTurn =>
        /\ nturns' = nturns /\ clearedAt' = clearedAt
        /\ user_input' = user_input \/ pc' = "idle"
        /\ \/ messages' = messages
           \/ /\ pc = "return" /\ pc' = "idle"
              /\ messages' = Append(messages, [role |-> "assistant",
                                               content |-> response,
                                               turn |-> nturns])

FairSpec ==
    /\ Spec
    /\ WF_vars(Generate) /\ WF_vars(Improve) /\ WF_vars(ExtractAssumptions)
    /\ WF_vars(Render) /\ WF_vars(Reply)

AssistantEntriesOf(t) ==
    {i \in 1..Len(messages) : messages[i].role = "assistant" /\ messages[i].turn = t}

\* C17 Every started turn terminates: once the user entry of a turn is
\* appended the turn eventually ends with exactly one assistant entry of
\* that turn appended last, and a turn in progress is left only by
\* appending that entry (no cancellation).
C17_TurnTerminates ==
    /\ \A t \in 1..MaxTurns :
          (InTurn /\ nturns = t) ~>
              (/\ pc = "idle"
               /\ Cardinality(AssistantEntriesOf(t)) = 1
               /\ messages[Len(messages)].role = "assistant"
               /\ messages[Len(messages)].turn = t)
    /\ [][(InTurn /\ ~InTurn') =>
             (pc = "return" /\ Len(messages') = Len(messages) + 1)]_vars

C17_Witness ==
    /\ pc = "idle" /\ nturns = 2
    /\ Len(messages) = 4
    /\ messages[4].role = "assistant" /\ messages[4].turn = 2
    /\ messages[2].content = <<"Sorry, I encountered an error. Please try again.">>

SystemContent(i) == posts[i].request.json.messages[1].content

\* C18 as stated: the expert system prompt is the system-role content of
\* every call of a turn (steps 1, 2 and 3).
C18_AsStated ==
    \A i \in 1..Len(posts) :
        /\ posts[i].request.json.messages[1].role = "system"
        /\ SystemContent(i) = ExpertPrompt

\* C18 amended: the expert system prompt is copied verbatim into the
\* system-role field of the step-1 call only; step 2 carries the fixed
\* reviewer prompt and step 3 the fixed analyst prompt, both short texts
\* distinct from the expert prompt.
C18_Amended ==
    /\ \A i \in 1..Len(posts) : posts[i].request.json.messages[1].role = "system"
    /\ Len(posts) >= 1 => SystemContent(1) = ExpertPrompt
    /\ Len(posts) >= 2 => SystemContent(2) =
         <<"You are a senior Solidity expert specializing in security, gas optimization, and best practices.">>
    /\ Len(posts) >= 3 => SystemContent(3) =
         <<"You are a Solidity code analyst who identifies assumptions and design decisions in smart contract code.">>
    /\ \A i \in 2..Len(posts) : SystemContent(i) # ExpertPrompt

C18_Witness ==
    /\ Len(posts) = 3 /\ ~posts[3].raised
    /\ SystemContent(1) = ExpertPrompt
    /\ SystemContent(3) # SystemContent(2)

\* C19 The single-call mode is unreachable from the UI: in every reachable
\* state use_two_call is False and use_three_call is True, so every turn
\* runs get_response in three-call mode, and a successful first call is
\* never returned as the answer but followed by step 2.
C19_AlwaysThreeCall ==
    /\ use_two_call = FALSE /\ use_three_call = TRUE
    /\ (pc = "return" /\ Len(posts) = 1) => posts[1].raised
    /\ pc = "return" => (Len(posts) = 3 \/ posts[Len(posts)].raised)

C19_Witness ==
    /\ pc = "return" /\ Len(posts) = 3
    /\ clearedAt = 1 /\ nturns = 2
    /\ ~use_two_call /\ use_three_call

EntriesOfTurn(role, t) ==
    {i \in 1..Len(messages) : messages[i].role = role /\ messages[i].turn = t}

\* whatever the calls did, get_response hands a text back to main()
C20_ReturnsText ==
    pc = "return" =>
        /\ response # Unset
        /\ Len(response) >= 1
        /\ (CallFailed(1) \/ CallFailed(2)) =>
              response = <<"Sorry, I encountered an error. Please try again.">>

\* between turns the history holds one user and one assistant entry for
\* each turn started since the last clear
C20_TwoPerTurn ==
    pc = "idle" =>
        /\ \A t \in (clearedAt + 1)..nturns :
              /\ Cardinality(EntriesOfTurn("user", t)) = 1
              /\ Cardinality(EntriesOfTurn("assistant", t)) = 1
        /\ Len(messages) = 2 * (nturns - clearedAt)

\* the turn handler records what get_response returned, and a turn that
\* failed in step 1 or 2 records the apology
C20_Step ==
    (pc = "return" /\ pc' # "return") =>
        /\ pc' = "idle"
        /\ Len(messages') = Len(messages) + 1
        /\ messages'[Len(messages')].role = "assistant"
        /\ messages'[Len(messages')].content = response
        /\ (CallFailed(1) \/ CallFailed(2)) =>
              messages'[Len(messages')].content =
                  <<"Sorry, I encountered an error. Please try again.">>

\* C20 get_response is total with respect to call failures: whatever the
\* three calls do it returns a text to main(); a turn that fails in step 1
\* or 2 appends exactly one assistant entry holding the apology, and the
\* history grows by exactly two entries per turn, succeeded, degraded or
\* failed.
C20_Total ==
    /\ [](C20_ReturnsText /\ C20_TwoPerTurn)
    /\ [][C20_Step]_vars

C20_Witness ==
    /\ pc = "idle" /\ Len(messages) = 4
    /\ messages[2].content = <<"Sorry, I encountered an error. Please try again.">>
    /\ Occurs(<<"Error extracting security assumptions from code analysis">>,
              messages[4].content)

\* C21 The handler that turns step-1/2 failures into the apology also
\* encloses what is done after step 3: when a rendering step raises after
\* the three calls succeeded, get_response returns the apology and the
\* composed result is discarded, whatever had been rendered before; when
\* none raises, the composed result is returned.
C21_RenderFailureGivesApology ==
    (Returning /\ CallOk(1) /\ CallOk(2) /\ CallOk(3)) =>
        /\ render_raised =>
              /\ response = <<"Sorry, I encountered an error. Please try again.">>
              /\ ~Occurs(improved_response, response)
              /\ ~Occurs(<<"*Two-Call Architecture Complete* - This response has been improved [...] are documented above.">>,
                         response)
              /\ shown # {"improvement expander", "assumptions expander",
                          "flow visualization"}
        /\ ~render_raised =>
              /\ response # <<"Sorry, I encountered an error. Please try again.">>
              /\ IsPrefix(improved_response, response)

C21_Witness ==
    /\ Returning /\ CallOk(1) /\ CallOk(2) /\ CallOk(3)
    /\ posts[3].content = dumps(SpecInstance)
    /\ technical_assumptions # Unset
    /\ render_raised
    /\ shown = {"improvement expander", "assumptions expander"}
    /\ response = <<"Sorry, I encountered an error. Please try again.">>

=============================================================================
